---- MODULE Spec2Model ----
(***************************************************************************)
(* Chlorine contact tank calculator: the calculation engine                *)
(* (utils/calculations.ts, constants.ts), the declared types (types.ts)    *)
(* and the form state of the App component.                                *)
(*                                                                         *)
(* JavaScript numbers are modelled as decimal floating-point values with   *)
(* an eight digit significand, rounded after every operation, together     *)
(* with NaN, +Infinity, -Infinity and the value undefined.  A finite       *)
(* number is m * 10^e and is kept canonical (m has no trailing zero), so   *)
(* that equal numbers are equal records.                                   *)
(***************************************************************************)
EXTENDS Integers, Sequences, FiniteSets, TLC

VARIABLES state, results, edits

vars == <<state, results, edits>>

(***************************************************************************)
(* Numbers                                                                 *)
(***************************************************************************)
Abs(n) == IF n < 0 THEN -n ELSE n

Sgn(n) == IF n < 0 THEN -1 ELSE IF n > 0 THEN 1 ELSE 0

\* Number of decimal digits of n > 0 (n below 2^31).
NDigits(n) ==
    CASE n < 10 -> 1
      [] n < 100 -> 2
      [] n < 1000 -> 3
      [] n < 10000 -> 4
      [] n < 100000 -> 5
      [] n < 1000000 -> 6
      [] n < 10000000 -> 7
      [] n < 100000000 -> 8
      [] n < 1000000000 -> 9
      [] OTHER -> 10

NaN == [k |-> "nan", m |-> 0, e |-> 0]

Undefined == [k |-> "undefined", m |-> 0, e |-> 0]

PosInf == [k |-> "inf", m |-> 1, e |-> 0]

NegInf == [k |-> "inf", m |-> -1, e |-> 0]

Zero == [k |-> "fin", m |-> 0, e |-> 0]

Inf(s) == IF s < 0 THEN NegInf ELSE PosInf

RECURSIVE Strip(_, _)
\* m # 0 without its trailing zeros, the exponent raised to match.
Strip(m, e) ==
    IF m % 10 = 0 THEN Strip(m \div 10, e + 1) ELSE [k |-> "fin", m |-> m, e |-> e]

\* q * 10^x, q # 0 of at most eight digits: an infinity above 1.8e308,
\* zero below 5e-324.
FinRange(q, x) ==
    IF x + NDigits(Abs(q)) > 309 THEN Inf(q)
    ELSE IF x + NDigits(Abs(q)) < -323 THEN Zero
    ELSE Strip(q, x)

\* m * 10^e, m # 0 of d digits, rounded to eight significant digits (half
\* away from zero).
FinRound(m, e, d) ==
    FinRange(IF d > 8 THEN Sgn(m) * ((Abs(m) + 5 * 10^(d - 9)) \div 10^(d - 8)) ELSE m,
             IF d > 8 THEN e + (d - 8) ELSE e)

\* The number nearest to m * 10^e, |m| < 2^31.
Fin(m, e) == IF m = 0 THEN Zero ELSE FinRound(m, e, NDigits(Abs(m)))

\* The number literal m * 10^e of the source text.
F(m, e) == Fin(m, e)

One == F(1, 0)

Two == F(2, 0)

Ten == F(10, 0)

IsFinite(x) == x.k = "fin"

\* NaN, or undefined (which converts to NaN in arithmetic).
IsNaN(x) == x.k \in {"nan", "undefined"}

IsInf(x) == x.k = "inf"

\* Sign of a number that is not NaN: -1, 0 or 1.
Sign(x) == Sgn(x.m)

\* The digits of |x| scaled to exactly n digits.
ScaledM(x, n) == Abs(x.m) * 10^(n - NDigits(Abs(x.m)))

\* The exponent that goes with ScaledM(x, n).
ScaledE(x, n) == x.e - (n - NDigits(Abs(x.m)))

Neg(x) ==
    CASE IsNaN(x) -> NaN
      [] IsInf(x) -> Inf(-x.m)
      [] OTHER -> [k |-> "fin", m |-> -x.m, e |-> x.e]

\* -1, 0, 1 as x < y, x = y, x > y, for x and y that are not NaN.
Cmp(x, y) ==
    CASE IsInf(x) /\ IsInf(y) -> Sgn(x.m - y.m)
      [] IsInf(x) -> x.m
      [] IsInf(y) -> -y.m
      [] Sign(x) # Sign(y) -> Sgn(Sign(x) - Sign(y))
      [] Sign(x) = 0 -> 0
      [] ScaledE(x, 8) # ScaledE(y, 8) -> Sign(x) * Sgn(ScaledE(x, 8) - ScaledE(y, 8))
      [] OTHER -> Sign(x) * Sgn(ScaledM(x, 8) - ScaledM(y, 8))

\* The comparison operators of the language: false when an operand is NaN.
Gt(x, y) == ~IsNaN(x) /\ ~IsNaN(y) /\ Cmp(x, y) = 1

Lt(x, y) == ~IsNaN(x) /\ ~IsNaN(y) /\ Cmp(x, y) = -1

Ge(x, y) == ~IsNaN(x) /\ ~IsNaN(y) /\ Cmp(x, y) >= 0

Le(x, y) == ~IsNaN(x) /\ ~IsNaN(y) /\ Cmp(x, y) <= 0

\* big + s * sml / 10^diff, times 10^e: the smaller operand shifted to the
\* exponent of the larger one.
AddShift(big, s, sml, diff, e) ==
    Fin(big + s * (IF diff = 0 THEN sml
                   ELSE IF diff > 9 THEN 0
                   ELSE (sml + 5 * 10^(diff - 1)) \div 10^diff), e)

\* sx * ma * 10^ea + sy * mb * 10^eb for nine digit ma and mb.
AddScaled(sx, ma, ea, sy, mb, eb) ==
    IF ea >= eb THEN AddShift(sx * ma, sy, mb, ea - eb, ea)
    ELSE AddShift(sy * mb, sx, ma, eb - ea, eb)

Add(x, y) ==
    CASE IsNaN(x) \/ IsNaN(y) -> NaN
      [] IsInf(x) /\ IsInf(y) -> IF x.m = y.m THEN x ELSE NaN
      [] IsInf(x) -> x
      [] IsInf(y) -> y
      [] x.m = 0 -> y
      [] y.m = 0 -> x
      [] OTHER -> AddScaled(Sign(x), ScaledM(x, 9), ScaledE(x, 9),
                            Sign(y), ScaledM(y, 9), ScaledE(y, 9))

Sub(x, y) == Add(x, Neg(y))

\* (hi * 10^8 + lo) * 10^e with sign s, hi > 0.
MulTop(s, hi, lo, e) ==
    Fin(s * (hi * 10^(9 - NDigits(hi)) + lo \div 10^(NDigits(hi) - 1)),
        e + NDigits(hi) - 1)

\* (hh * 10^8 + mid * 10^4 + ll) * 10^e with sign s.
MulJoin(s, hh, mid, ll, e) ==
    MulTop(s,
           hh + (mid \div 10000) + (((mid % 10000) * 10000 + ll) \div 100000000),
           ((mid % 10000) * 10000 + ll) % 100000000,
           e)

\* The product of the halves a1 a0 and b1 b0 of two eight digit numbers.
MulParts(s, a1, a0, b1, b0, e) == MulJoin(s, a1 * b1, a1 * b0 + a0 * b1, a0 * b0, e)

\* s * a * b * 10^e for a, b > 0.
MulDigits(s, a, b, e) ==
    IF NDigits(a) + NDigits(b) <= 9 THEN Fin(s * a * b, e)
    ELSE MulParts(s, a \div 10000, a % 10000, b \div 10000, b % 10000, e)

Mul(x, y) ==
    CASE IsNaN(x) \/ IsNaN(y) -> NaN
      [] IsInf(x) \/ IsInf(y) ->
           IF Sign(x) * Sign(y) = 0 THEN NaN ELSE Inf(Sign(x) * Sign(y))
      [] x.m = 0 \/ y.m = 0 -> Zero
      [] OTHER -> MulDigits(Sign(x) * Sign(y), Abs(x.m), Abs(y.m), x.e + y.e)

RECURSIVE LongDiv(_, _, _, _)
\* n further digits of the quotient r / b, appended to acc.
LongDiv(r, b, n, acc) ==
    IF n = 0 THEN acc
    ELSE LongDiv((r % b) * 10, b, n - 1, acc * 10 + (r \div b))

\* s * (a / b) * 10^e for eight digit a and b.
DivDigits(s, a, b, e) ==
    IF a < b THEN Fin(s * LongDiv(a * 10, b, 9, 0), e - 9)
    ELSE Fin(s * LongDiv(a, b, 9, 0), e - 8)

Div(x, y) ==
    CASE IsNaN(x) \/ IsNaN(y) -> NaN
      [] IsInf(x) /\ IsInf(y) -> NaN
      [] IsInf(x) -> Inf(x.m * (IF Sign(y) < 0 THEN -1 ELSE 1))
      [] IsInf(y) -> Zero
      [] y.m = 0 -> IF x.m = 0 THEN NaN ELSE Inf(Sign(x))
      [] x.m = 0 -> Zero
      [] OTHER -> DivDigits(Sign(x) * Sign(y), ScaledM(x, 8), ScaledM(y, 8),
                            ScaledE(x, 8) - ScaledE(y, 8))

\* Math.max and Math.min: NaN when an argument is NaN.
MathMax(x, y) ==
    IF IsNaN(x) \/ IsNaN(y) THEN NaN ELSE IF Cmp(x, y) >= 0 THEN x ELSE y

MathMin(x, y) ==
    IF IsNaN(x) \/ IsNaN(y) THEN NaN ELSE IF Cmp(x, y) <= 0 THEN x ELSE y

(***************************************************************************)
(* Math.pow                                                                *)
(***************************************************************************)
\* The integer nearest to a finite x with |x| < 10^9.
NearestInt(x) ==
    IF x.e >= 0 THEN x.m * 10^x.e
    ELSE IF -x.e > 9 THEN 0
    ELSE Sgn(x.m) * ((Abs(x.m) + 5 * 10^(-x.e - 1)) \div 10^(-x.e))

\* ln 10
LN10 == F(23025851, -7)

RECURSIVE ExpSeries(_, _, _, _)
\* term + term*y/n + term*y^2/(n(n+1)) + ... up to the divisor last.
ExpSeries(y, term, n, last) ==
    IF n > last THEN term
    ELSE Add(term, ExpSeries(y, Div(Mul(term, y), F(n, 0)), n + 1, last))

\* x * 10^n
Scale10(x, n) == Fin(x.m, x.e + n)

\* 10^x for |x| <= 400: 10^n * e^(f ln 10) with n the integer nearest to x
\* and f = x - n, the exponential summed from its series to eight digits.
Exp10Near(x, n) == Scale10(ExpSeries(Mul(Sub(x, F(n, 0)), LN10), One, 1, 14), n)

Exp10(x) ==
    CASE IsNaN(x) -> NaN
      [] IsInf(x) -> IF x.m > 0 THEN PosInf ELSE Zero
      [] Cmp(x, F(400, 0)) > 0 -> PosInf
      [] Cmp(x, F(-400, 0)) < 0 -> Zero
      [] OTHER -> Exp10Near(x, NearestInt(x))

\* Temperature correction factor (theta).
KEEGAN_THETA == F(107, -2)

\* log10 of the two bases the engine raises to a power that is not 2.
Log10(b) ==
    CASE b = Ten -> One
      [] b = KEEGAN_THETA -> F(29383778, -9)
      [] OTHER -> NaN

\* Math.pow(b, x): x = 2 is the exact square, pow(b, 0) is 1, and any
\* other power of a positive base is 10^(x log10 b).
MathPow(b, x) ==
    CASE IsNaN(x) -> NaN
      [] x = Zero -> One
      [] IsNaN(b) -> NaN
      [] x = Two -> Mul(b, b)
      [] OTHER -> Exp10(Mul(x, Log10(b)))

\* Math.PI
MathPI == F(31415927, -7)

(***************************************************************************)
(* Types and constants                                                     *)
(***************************************************************************)
SODIUM_HYPOCHLORITE == "Sodium Hypochlorite"

CHLORINE_GAS == "Chlorine Gas"

ChlorineChemical == {SODIUM_HYPOCHLORITE, CHLORINE_GAS}

PIPE == "Pipe"

CIRCULAR == "Circular Tank"

RECTANGULAR == "Rectangular Tank"

SQUARE == "Square Tank"

TankType == {PIPE, CIRCULAR, RECTANGULAR, SQUARE}

LOW == "< 0.2 NTU"

MID == "> 0.2 to < 1 NTU"

HIGH == "> 1 NTU"

TurbidityLevel == {LOW, MID, HIGH}

\* E. coli benchmark, L / (mg min) at 20 C.
KEEGAN_K_BACTERIA == F(46, -1)

TURBIDITY_SHIELDING_FACTORS ==
    [t \in TurbidityLevel |->
        CASE t = LOW -> F(1, 0)
          [] t = MID -> F(8, -1)
          [] t = HIGH -> F(5, -1)]

MAX_LRV == F(4, 0)

\* Property access: a property the object does not have reads undefined.
Get(obj, field) == IF field \in DOMAIN obj THEN obj[field] ELSE Undefined

\* A destructuring default: taken when the property reads undefined.
Default(v, d) == IF v = Undefined THEN d ELSE v

(***************************************************************************)
(* calculateResults, stage by stage                                        *)
(***************************************************************************)

\* The hypochlorite feed as mass of chlorine (kg/h).
\* massRate_kgh with the percentage taken as a plain factor.
massRate_kgh_NoPercent(s) == Mul(Get(s, "naOClDoseRate"), Get(s, "naOClConc"))

massRate_kgh(s) == Div(Mul(Get(s, "naOClDoseRate"), Get(s, "naOClConc")), F(100, 0))

\* 1. Chlorine dose (mg/L).
\* dose_mgL with the mass of both chemicals dosed, whichever is selected.
dose_mgL_BothChemicals(s) ==
    IF Gt(Get(s, "flowRate"), Zero)
    THEN Div(Mul(Mul(Add(massRate_kgh(s), Get(s, "gasDoseRate")), F(24, 0)), F(1000, 0)),
             Get(s, "flowRate"))
    ELSE Zero

\* dose_mgL with no test of flowRate before the division.
dose_mgL_NoGuard(s) ==
    IF Get(s, "chemical") = SODIUM_HYPOCHLORITE
    THEN Div(Mul(Mul(massRate_kgh(s), F(24, 0)), F(1000, 0)), Get(s, "flowRate"))
    ELSE Div(Mul(Mul(Get(s, "gasDoseRate"), F(24, 0)), F(1000, 0)), Get(s, "flowRate"))

dose_mgL(s) ==
    IF Get(s, "chemical") = SODIUM_HYPOCHLORITE
    THEN IF Gt(Get(s, "flowRate"), Zero)
         THEN Div(Mul(Mul(massRate_kgh(s), F(24, 0)), F(1000, 0)), Get(s, "flowRate"))
         ELSE Zero
    ELSE IF Gt(Get(s, "flowRate"), Zero)
         THEN Div(Mul(Mul(Get(s, "gasDoseRate"), F(24, 0)), F(1000, 0)), Get(s, "flowRate"))
         ELSE Zero

\* A dimension of the tank, 0 when the dimensions leave it out.
Dimension(s, field) == Default(Get(Get(s, "dimensions"), field), Zero)

\* vol with the pipe taken as long as the water is deep.
vol_PipeDepth(s) ==
    CASE Get(s, "tankType") \in {PIPE, CIRCULAR} ->
           Mul(Mul(MathPI, MathPow(Div(MathMax(Zero, Dimension(s, "diameter")), Two), Two)),
               MathMax(Zero, Dimension(s, "waterDepth")))
      [] Get(s, "tankType") \in {RECTANGULAR, SQUARE} ->
           Mul(Mul(MathMax(Zero, Dimension(s, "length")),
                   MathMax(Zero, Dimension(s, "width"))),
               MathMax(Zero, Dimension(s, "waterDepth")))
      [] OTHER -> Zero

\* 2. Volume (m3): a tank type that matches no case leaves vol at 0.
vol(s) ==
    CASE Get(s, "tankType") = PIPE ->
           Mul(Mul(MathPI, MathPow(Div(MathMax(Zero, Dimension(s, "diameter")), Two), Two)),
               MathMax(Zero, Dimension(s, "length")))
      [] Get(s, "tankType") = CIRCULAR ->
           Mul(Mul(MathPI, MathPow(Div(MathMax(Zero, Dimension(s, "diameter")), Two), Two)),
               MathMax(Zero, Dimension(s, "waterDepth")))
      [] Get(s, "tankType") \in {RECTANGULAR, SQUARE} ->
           Mul(Mul(MathMax(Zero, Dimension(s, "length")),
                   MathMax(Zero, Dimension(s, "width"))),
               MathMax(Zero, Dimension(s, "waterDepth")))
      [] OTHER -> Zero

\* Flow in m3/h.
q_m3h(s) == Div(Get(s, "flowRate"), F(24, 0))

\* t_min with no test of the volume and the flow before the division.
t_min_NoGuard(s, v) == Mul(Div(v, q_m3h(s)), F(60, 0))

\* 3. Retention time (min).
t_min(s, v) ==
    IF Gt(v, Zero) /\ Gt(q_m3h(s), Zero) THEN Mul(Div(v, q_m3h(s)), F(60, 0)) ELSE Zero

\* bf with the configured factor applied whether the tank is baffled or not.
bf_Always(s) == MathMax(Zero, Get(s, "baffleFactor"))

\* The baffle factor applied.
bf(s) ==
    IF Get(s, "isBaffled") = TRUE
    THEN MathMax(Zero, Get(s, "baffleFactor"))
    ELSE F(1, -1)

bufferFactor(s) == MathMax(Get(s, "alkalinity"), Ten)

\* postDosePh with chlorine gas taken as caustic too.
postDosePh_Caustic(s, dose) ==
    MathMax(Two, MathMin(F(12, 0),
        Add(Get(s, "pH"),
            Div(Mul(IF Get(s, "chemical") = CHLORINE_GAS THEN F(25, -1) ELSE F(18, -1), dose),
                bufferFactor(s)))))

\* postDosePh without the clamp to [2, 12].
postDosePh_NoClamp(s, dose) ==
    IF Get(s, "chemical") = CHLORINE_GAS
    THEN Sub(Get(s, "pH"), Div(Mul(F(25, -1), dose), bufferFactor(s)))
    ELSE Add(Get(s, "pH"), Div(Mul(F(18, -1), dose), bufferFactor(s)))

\* 4. Post-dose pH.
postDosePh(s, dose) ==
    MathMax(Two, MathMin(F(12, 0),
        IF Get(s, "chemical") = CHLORINE_GAS
        THEN Sub(Get(s, "pH"), Div(Mul(F(25, -1), dose), bufferFactor(s)))
        ELSE Add(Get(s, "pH"), Div(Mul(F(18, -1), dose), bufferFactor(s)))))

\* 5. HOCl fraction (Morris 1966 dissociation model).
tKelvin(s) == Add(Get(s, "temperature"), F(27315, -2))

pKa(s) == Add(Sub(Div(F(3000, 0), tKelvin(s)), F(100686, -4)), Mul(F(253, -4), tKelvin(s)))

\* hoClFraction without the reciprocal.
hoClFraction_NoReciprocal(s, ph) == Add(One, MathPow(Ten, Sub(ph, pKa(s))))

hoClFraction(s, ph) == Div(One, Add(One, MathPow(Ten, Sub(ph, pKa(s)))))

\* 6. Ct values (mg min / L).
ctDose(dose, t10) == MathMax(Zero, Mul(dose, t10))

effectiveCt(dose, hocl, t10) == MathMax(Zero, Mul(Mul(dose, hocl), t10))

\* 7. Corrections.
tempCorrection(s) == MathPow(KEEGAN_THETA, Sub(Get(s, "temperature"), F(20, 0)))

turbidityFactor(s) == Get(TURBIDITY_SHIELDING_FACTORS, Get(s, "turbidity"))

\* lookupVirusLrv with the slope of the first segment kept on the second.
lookupVirusLrv_Steep(ct20) ==
    IF Le(ct20, Zero) THEN Zero
    ELSE IF Le(ct20, One) THEN Mul(Two, ct20)
    ELSE IF Le(ct20, Two) THEN Add(Two, Mul(Sub(ct20, One), Two))
    ELSE IF Le(ct20, F(3, 0)) THEN Add(F(3, 0), Mul(Sub(ct20, Two), One))
    ELSE Add(F(4, 0), Mul(Sub(ct20, F(3, 0)), One))

\* Piecewise linear interpolation for virus LRV (Enterovirus at 20 C).
lookupVirusLrv(ct20) ==
    IF Le(ct20, Zero) THEN Zero
    ELSE IF Le(ct20, One) THEN Mul(Two, ct20)
    ELSE IF Le(ct20, Two) THEN Add(Two, Mul(Sub(ct20, One), One))
    ELSE IF Le(ct20, F(3, 0)) THEN Add(F(3, 0), Mul(Sub(ct20, Two), One))
    ELSE Add(F(4, 0), Mul(Sub(ct20, F(3, 0)), One))

\* The clamp without its upper end.
ClampLrv_NoCap(raw) == MathMax(Zero, raw)

\* The clamp of a raw LRV: Math.max(0, Math.min(MAX_LRV, raw)).
ClampLrv(raw) == MathMax(Zero, MathMin(MAX_LRV, raw))

\* The raw bacteria LRV of a Ct.
lrvBacteriaRaw(tc, tf, ct) == Mul(Mul(Mul(KEEGAN_K_BACTERIA, tc), tf), ct)

\* The raw virus LRV of a Ct, normalized to 20 C.
lrvVirusRaw(tc, ct) == lookupVirusLrv(Mul(ct, tc))

\* Credited with the turbidity factor applied to the virus LRVs as well.
Credited_ShieldedVirus(tc, tf, ct, ect) ==
    [lrvBacteriaApplied |-> ClampLrv(lrvBacteriaRaw(tc, tf, ct)),
     lrvBacteriaEffective |-> ClampLrv(lrvBacteriaRaw(tc, tf, ect)),
     lrvVirusApplied |-> ClampLrv(Mul(tf, lrvVirusRaw(tc, ct))),
     lrvVirusEffective |-> ClampLrv(Mul(tf, lrvVirusRaw(tc, ect)))]

\* The four LRVs below high turbidity, for temperature correction tc and
\* turbidity factor tf.
Credited(tc, tf, ct, ect) ==
    [lrvBacteriaApplied |-> ClampLrv(lrvBacteriaRaw(tc, tf, ct)),
     lrvBacteriaEffective |-> ClampLrv(lrvBacteriaRaw(tc, tf, ect)),
     lrvVirusApplied |-> ClampLrv(lrvVirusRaw(tc, ct)),
     lrvVirusEffective |-> ClampLrv(lrvVirusRaw(tc, ect))]

\* Inactivation without the test of the turbidity level.
Inactivation_NoGate(s, ct, ect) ==
    Credited(tempCorrection(s), turbidityFactor(s), ct, ect)

\* 8. Inactivation logic: the four LRVs stay 0 at high turbidity.
Inactivation(s, ct, ect) ==
    IF Get(s, "turbidity") # HIGH
    THEN Credited(tempCorrection(s), turbidityFactor(s), ct, ect)
    ELSE [lrvBacteriaApplied |-> Zero, lrvBacteriaEffective |-> Zero,
          lrvVirusApplied |-> Zero, lrvVirusEffective |-> Zero]

\* The record returned.
Return(dose, v, effectiveVol, t, t10, ct, ect, ph, hocl, lrv) ==
    [chlorineDose |-> dose,
     volume |-> v,
     effectiveVolume |-> effectiveVol,
     retentionTime |-> t,
     t10 |-> t10,
     ctDose |-> ct,
     effectiveCt |-> ect,
     postDosePh |-> ph,
     hoClFraction |-> hocl,
     lrvBacteriaApplied |-> lrv.lrvBacteriaApplied,
     lrvBacteriaEffective |-> lrv.lrvBacteriaEffective,
     lrvVirusApplied |-> lrv.lrvVirusApplied,
     lrvVirusEffective |-> lrv.lrvVirusEffective]

\* Section 8 on with the turbidity factor applied to the Ct values returned
\* rather than to the rate constant.
FromInactivation_ShieldedCt(s, dose, v, effectiveVol, t, t10, ph, hocl, ct, ect) ==
    Return(dose, v, effectiveVol, t, t10, Mul(ct, turbidityFactor(s)),
           Mul(ect, turbidityFactor(s)), ph, hocl, Inactivation(s, ct, ect))

\* calculateResults from section 8 on, given the values of sections 1 to 6.
FromInactivation(s, dose, v, effectiveVol, t, t10, ph, hocl, ct, ect) ==
    Return(dose, v, effectiveVol, t, t10, ct, ect, ph, hocl, Inactivation(s, ct, ect))

\* From section 6 on.
FromCt(s, dose, v, effectiveVol, t, t10, ph, hocl) ==
    FromInactivation(s, dose, v, effectiveVol, t, t10, ph, hocl,
                     ctDose(dose, t10), effectiveCt(dose, hocl, t10))

\* From section 5 on.
FromHoCl(s, dose, v, effectiveVol, t, t10, ph) ==
    FromCt(s, dose, v, effectiveVol, t, t10, ph, hoClFraction(s, ph))

\* From section 4 on, with the baffle factor b applied.
FromPh(s, dose, v, t, b) ==
    FromHoCl(s, dose, v, Mul(v, b), t, Mul(t, b), postDosePh(s, dose))

\* From section 3 on.
FromRetention(s, dose, v) == FromPh(s, dose, v, t_min(s, v), bf(s))

calculateResults(s) == FromRetention(s, dose_mgL(s), vol(s))

(***************************************************************************)
(* The process state handed to the engine                                  *)
(***************************************************************************)
\* The state the App component constructs and first passes to
\* calculateResults.
InitialState ==
    [flowRate |-> F(10000, 0),
     chemical |-> SODIUM_HYPOCHLORITE,
     naOClConc |-> F(125, -1),
     naOClDoseRate |-> F(5, 0),
     gasDoseRate |-> F(2, 0),
     tankType |-> RECTANGULAR,
     dimensions |-> [length |-> F(20, 0), width |-> F(5, 0), waterDepth |-> F(3, 0)],
     isBaffled |-> TRUE,
     baffleFactor |-> F(5, -1),
     pH |-> F(75, -1),
     temperature |-> F(20, 0),
     alkalinity |-> F(100, 0),
     turbidity |-> LOW]

\* The same state written with the property names the AppState interface
\* declares (naoclConc, naoclDoseRate).
DeclaredState ==
    [f \in ((DOMAIN InitialState) \ {"naOClConc", "naOClDoseRate"})
              \cup {"naoclConc", "naoclDoseRate"} |->
        CASE f = "naoclConc" -> InitialState.naOClConc
          [] f = "naoclDoseRate" -> InitialState.naOClDoseRate
          [] OTHER -> InitialState[f]]

\* How many times a caller changes the state it hands to the engine.
MaxEdits == 2

\* An unrecognized tank type (a variant the engine has no case for).
OtherTank == "Oval Tank"

\* The values a caller may put in a property of the process state.
FieldValues(field) ==
    CASE field = "flowRate" -> {F(-10000, 0), Zero, F(10000, 0), F(200000, 0)}
      [] field = "chemical" -> ChlorineChemical
      [] field \in {"naOClConc", "naoclConc"} -> {Zero, F(125, -1)}
      [] field \in {"naOClDoseRate", "naoclDoseRate"} -> {F(-5, 0), F(5, 0)}
      [] field = "gasDoseRate" -> {F(2, 0), F(200, 0)}
      [] field = "tankType" -> TankType \cup {OtherTank}
      [] field = "isBaffled" -> BOOLEAN
      [] field = "baffleFactor" -> {F(-5, -1), F(5, -1), One}
      [] field = "pH" -> {One, F(75, -1), F(13, 0)}
      [] field = "temperature" -> {F(-27315, -2), F(-5, 0), Zero, F(20, 0)}
      [] field = "alkalinity" -> {Zero, F(100, 0)}
      [] field = "turbidity" -> TurbidityLevel
      [] OTHER -> {}

\* The values of a tank dimension; a dimension may also be left out.
DimensionValues(field) ==
    CASE field = "length" -> {Undefined, F(-20, 0), F(20, 0)}
      [] field = "width" -> {Undefined, F(5, 0)}
      [] field = "diameter" -> {Undefined, F(5, -1), F(4, 0)}
      [] field = "waterDepth" -> {Undefined, F(3, 0)}
      [] OTHER -> {}

DimensionFields == {"length", "width", "diameter", "waterDepth"}

\* obj with property field set to v (added when obj does not have it).
With(obj, field, v) ==
    [f \in (DOMAIN obj) \cup {field} |-> IF f = field THEN v ELSE obj[f]]

(***************************************************************************)
(* The engine and its caller                                               *)
(***************************************************************************)
Init ==
    /\ state = InitialState
    /\ results = calculateResults(InitialState)
    /\ edits = 0

InitDeclared ==
    /\ state = DeclaredState
    /\ results = calculateResults(DeclaredState)
    /\ edits = 0

\* The caller changes one property of the state and the results are
\* calculated from the new state.
SetField(field, value) ==
    /\ edits < MaxEdits
    /\ field \in DOMAIN state
    /\ value \in FieldValues(field)
    /\ value # state[field]
    /\ LET next == [state EXCEPT ![field] = value]
       IN  /\ state' = next
           /\ results' = calculateResults(next)
    /\ edits' = edits + 1

\* The caller changes one tank dimension.
SetDimension(field, value) ==
    /\ edits < MaxEdits
    /\ field \in DimensionFields
    /\ value \in DimensionValues(field)
    /\ value # Get(state.dimensions, field)
    /\ LET next == [state EXCEPT !.dimensions = With(state.dimensions, field, value)]
       IN  /\ state' = next
           /\ results' = calculateResults(next)
    /\ edits' = edits + 1

Next ==
    \/ \E field \in DOMAIN state : \E value \in FieldValues(field) : SetField(field, value)
    \/ \E field \in DimensionFields : \E value \in DimensionValues(field) :
           SetDimension(field, value)

Spec == Init /\ [][Next]_vars

\* The engine called with states that conform to the declared interface.
SpecDeclared == InitDeclared /\ [][Next]_vars

(***************************************************************************)
(* Properties of the engine                                                *)
(***************************************************************************)
LrvFields ==
    {"lrvBacteriaApplied", "lrvBacteriaEffective", "lrvVirusApplied", "lrvVirusEffective"}

NonLrvFields ==
    {"chlorineDose", "volume", "effectiveVolume", "retentionTime", "t10", "ctDose",
     "effectiveCt", "postDosePh", "hoClFraction"}

ResultFields == LrvFields \cup NonLrvFields

NumericFields ==
    {"flowRate", "naOClConc", "naOClDoseRate", "gasDoseRate", "baffleFactor", "pH",
     "temperature", "alkalinity"}

\* Every numeric property of s, and every dimension s gives, is >= 0.
NonNegativeInputs(s) ==
    /\ \A f \in NumericFields : Ge(Get(s, f), Zero)
    /\ \A d \in DimensionFields :
           Get(s.dimensions, d) = Undefined \/ Ge(Get(s.dimensions, d), Zero)

\* |x - target| <= tol
Near(x, target, tol) == Le(Sub(x, target), tol) /\ Ge(Sub(x, target), Neg(tol))

\* r restricted to the nine outputs that are not LRVs.
NonLrv(r) == [f \in NonLrvFields |-> r[f]]

\* C1: with turbidity High all four LRV outputs are exactly 0, whatever
\* ctDose and effectiveCt are.
C1_HighTurbidityZeroLrv ==
    state.turbidity = HIGH => \A f \in LrvFields : results[f] = Zero

C1_Witness ==
    /\ state.turbidity = HIGH
    /\ Gt(results.ctDose, MAX_LRV)
    /\ Gt(results.effectiveCt, Zero)
    /\ results.lrvBacteriaApplied = Zero

\* C2: each of the four LRV outputs lies in [0, 4], and a raw bacteria or
\* virus value above 4 is reported as exactly 4.
C2_LrvInRange ==
    /\ \A f \in LrvFields : Ge(results[f], Zero) /\ Le(results[f], MAX_LRV)
    /\ state.turbidity # HIGH =>
         /\ Gt(lrvBacteriaRaw(tempCorrection(state), turbidityFactor(state), results.ctDose),
               MAX_LRV) => results.lrvBacteriaApplied = MAX_LRV
         /\ Gt(lrvVirusRaw(tempCorrection(state), results.effectiveCt), MAX_LRV)
               => results.lrvVirusEffective = MAX_LRV

C2_Witness ==
    /\ state.turbidity # HIGH
    /\ Gt(lrvBacteriaRaw(tempCorrection(state), turbidityFactor(state), results.ctDose),
          MAX_LRV)
    /\ results.lrvBacteriaApplied = MAX_LRV
    /\ Gt(results.lrvVirusApplied, Zero)
    /\ Lt(results.lrvVirusApplied, MAX_LRV)

\* C3: for a state that conforms to the declared interface the result has
\* all thirteen fields and none of them is undefined or NaN.
C3_FullyPopulated ==
    /\ DOMAIN results = ResultFields
    /\ \A f \in ResultFields : ~IsNaN(results[f])

\* C4: with flowRate = 0 or negative, chlorineDose, retentionTime, t10,
\* ctDose and effectiveCt are all exactly 0 (so neither NaN nor infinite).
C4_NoFlowAllZero ==
    Le(state.flowRate, Zero) =>
        \A f \in {"chlorineDose", "retentionTime", "t10", "ctDose", "effectiveCt"} :
            results[f] = Zero

C4_Witness ==
    /\ Lt(state.flowRate, Zero)
    /\ state.chemical = CHLORINE_GAS
    /\ Gt(results.volume, Zero)
    /\ results.chlorineDose = Zero
    /\ results.t10 = Zero

\* C5: when every numeric input is non-negative, chlorineDose, volume,
\* effectiveVolume, retentionTime, t10, ctDose and effectiveCt are >= 0.
C5_NonNegativeOutputs ==
    NonNegativeInputs(state) =>
        \A f \in NonLrvFields \ {"postDosePh", "hoClFraction"} : Ge(results[f], Zero)

C5_Witness ==
    /\ NonNegativeInputs(state)
    /\ edits > 0
    /\ state.flowRate = Zero
    /\ Gt(results.effectiveVolume, Zero)

\* C6: postDosePh lies in [2, 12].
C6_PostDosePhInRange == Ge(results.postDosePh, Two) /\ Le(results.postDosePh, F(12, 0))

C6_Witness ==
    /\ state.chemical = CHLORINE_GAS
    /\ Gt(state.pH, Two)
    /\ results.postDosePh = Two

\* C7: hoClFraction is strictly between 0 and 1 and pKa is computed
\* without a division by zero.
C7_HoClStrictlyInside ==
    /\ Gt(results.hoClFraction, Zero)
    /\ Lt(results.hoClFraction, One)
    /\ tKelvin(state) # Zero

\* C8 as amended: Scenario A gives volume 300, dose 1.5 mg/L, retention
\* time 43.2 min, t10 21.6 min and ctDose 32.4.
C8_ScenarioA ==
    state = InitialState =>
        /\ results.volume = F(300, 0)
        /\ Near(results.chlorineDose, F(15, -1), F(5, -3))
        /\ Near(results.retentionTime, F(432, -1), F(5, -2))
        /\ Near(results.t10, F(216, -1), F(5, -2))
        /\ Near(results.ctDose, F(324, -1), F(5, -2))

C8_Witness ==
    /\ state = InitialState
    /\ Gt(results.ctDose, Zero)
    /\ results.volume = F(300, 0)

\* C8 as stated: Scenario A gives volume 300, dose 15.0 mg/L, retention
\* time 43.2 min, t10 21.6 min and ctDose 324.
C8_ScenarioA_AsStated ==
    state = InitialState =>
        /\ results.volume = F(300, 0)
        /\ Near(results.chlorineDose, F(15, 0), F(5, -2))
        /\ Near(results.retentionTime, F(432, -1), F(5, -2))
        /\ Near(results.t10, F(216, -1), F(5, -2))
        /\ Near(results.ctDose, F(324, 0), F(5, -1))

\* C9: an unrecognized tank type is signalled: it does not come back as an
\* ordinary result whose volume and retention time are 0.
C9_UnrecognizedTankSignalled ==
    state.tankType \notin TankType =>
        ~(/\ DOMAIN results = ResultFields
          /\ results.volume = Zero
          /\ results.retentionTime = Zero)

\* C10: the nine outputs that are not LRVs do not depend on turbidity, and
\* Scenario A with turbidity High keeps ctDose and effectiveCt of Scenario A
\* while the four LRVs are 0.
C10_TurbidityFrame ==
    /\ \A t \in TurbidityLevel :
           NonLrv(calculateResults([state EXCEPT !.turbidity = t])) = NonLrv(results)
    /\ state = [InitialState EXCEPT !.turbidity = HIGH] =>
           /\ results.ctDose = calculateResults(InitialState).ctDose
           /\ results.effectiveCt = calculateResults(InitialState).effectiveCt
           /\ \A f \in LrvFields : results[f] = Zero

C10_Witness ==
    /\ state = [InitialState EXCEPT !.turbidity = HIGH]
    /\ Gt(results.effectiveCt, Zero)
    /\ Gt(calculateResults(InitialState).lrvVirusApplied, Zero)

\* The dimensions the volume formula of a tank type names.
UsedDimensions(t) ==
    CASE t = PIPE -> {"diameter", "length"}
      [] t = CIRCULAR -> {"diameter", "waterDepth"}
      [] t \in {RECTANGULAR, SQUARE} -> {"length", "width", "waterDepth"}
      [] OTHER -> {}

\* A dimension of s clamped to >= 0, 0 when s does not give it.
Clamped(s, d) == MathMax(Zero, Dimension(s, d))

\* pi (diameter / 2)^2 h
Cylinder(diameter, h) ==
    Mul(Mul(MathPI, Mul(Div(diameter, Two), Div(diameter, Two))), h)

\* The reference volume of the tank type s selects.
ReferenceVolume(s) ==
    CASE s.tankType = PIPE -> Cylinder(Clamped(s, "diameter"), Clamped(s, "length"))
      [] s.tankType = CIRCULAR -> Cylinder(Clamped(s, "diameter"), Clamped(s, "waterDepth"))
      [] s.tankType \in {RECTANGULAR, SQUARE} ->
             Mul(Mul(Clamped(s, "length"), Clamped(s, "width")), Clamped(s, "waterDepth"))

\* C11: for each of the four tank types the volume returned is the reference
\* formula of that type over the dimensions clamped to >= 0 (a missing one
\* taken as 0), and giving any value to a dimension the formula does not
\* name changes no output.
C11_VolumeFormula ==
    state.tankType \in TankType =>
        /\ results.volume = ReferenceVolume(state)
        /\ \A d \in DimensionFields \ UsedDimensions(state.tankType) :
               \A v \in DimensionValues(d) \ {Get(state.dimensions, d)} :
                   calculateResults([state EXCEPT !.dimensions = With(state.dimensions, d, v)])
                       = results

\* Scenario C: a pipe of diameter 0.5 whose volume is positive although
\* the record also carries a width and a water depth.
C11_Witness ==
    /\ state.tankType = PIPE
    /\ Get(state.dimensions, "diameter") = F(5, -1)
    /\ Get(state.dimensions, "width") = F(5, 0)
    /\ Get(state.dimensions, "waterDepth") = F(3, 0)
    /\ Gt(results.volume, Zero)
    /\ results.volume = Cylinder(F(5, -1), F(20, 0))

(***************************************************************************)
(* lookupVirusLrv on its own                                               *)
(*                                                                         *)
(* The engine calls lookupVirusLrv twice, with ctDose20 and ctEffective20. *)
(* Here the two arguments are drawn from a grid of Ct values: state holds  *)
(* the two arguments, results the two values returned and edits whether    *)
(* the calls were made.                                                    *)
(***************************************************************************)
\* The grid runs from -0.5 to MaxCtQuarters / 4 in steps of 0.25.
MaxCtQuarters == 18

\* The breakpoints of the lookup.
Breakpoints == {Zero, One, Two, F(3, 0)}

\* The grid, and the values next to each breakpoint on either side.
CtValues ==
    {F(25 * i, -2) : i \in -2..MaxCtQuarters}
        \cup {Add(b, F(1, -6)) : b \in Breakpoints}
        \cup {Sub(b, F(1, -6)) : b \in Breakpoints}

InitLookup ==
    /\ state \in [ctDose20 : CtValues, ctEffective20 : CtValues]
    /\ results = [lrvVirusAppliedRaw |-> Undefined, lrvVirusEffectiveRaw |-> Undefined]
    /\ edits = 0

\* The two calls of the engine.
LookupBoth ==
    /\ edits = 0
    /\ results' = [lrvVirusAppliedRaw |-> lookupVirusLrv(state.ctDose20),
                   lrvVirusEffectiveRaw |-> lookupVirusLrv(state.ctEffective20)]
    /\ edits' = 1
    /\ UNCHANGED state

NextLookup == LookupBoth

SpecLookup == InitLookup /\ [][NextLookup]_vars

\* C12: lookupVirusLrv returns 0 for Ct20 <= 0, is non-decreasing for
\* Ct20 >= 0, has no jump (its value rises by at most twice the step of its
\* argument, breakpoints included), and gives 2, 3 and 4 at 1, 2 and 3.
C12_LookupMonotoneContinuous ==
    edits = 1 =>
        /\ Le(state.ctDose20, Zero) => results.lrvVirusAppliedRaw = Zero
        /\ (Ge(state.ctEffective20, Zero) /\ Le(state.ctEffective20, state.ctDose20)) =>
               /\ Le(results.lrvVirusEffectiveRaw, results.lrvVirusAppliedRaw)
               /\ Le(Sub(results.lrvVirusAppliedRaw, results.lrvVirusEffectiveRaw),
                     Mul(Two, Sub(state.ctDose20, state.ctEffective20)))
        /\ state.ctDose20 = One => results.lrvVirusAppliedRaw = Two
        /\ state.ctDose20 = Two => results.lrvVirusAppliedRaw = F(3, 0)
        /\ state.ctDose20 = F(3, 0) => results.lrvVirusAppliedRaw = F(4, 0)

\* The two arguments lie on either side of the breakpoint 1.
C12_Witness ==
    /\ edits = 1
    /\ state.ctEffective20 = F(999999, -6)
    /\ state.ctDose20 = F(1000001, -6)
    /\ results.lrvVirusEffectiveRaw = F(1999998, -6)
    /\ results.lrvVirusAppliedRaw = F(2000001, -6)

\* The bacteria LRV before the clamp at low turbidity, for the Ct value ct
\* of state s.
UnclampedLow(s, ct) ==
    lrvBacteriaRaw(tempCorrection(s), TURBIDITY_SHIELDING_FACTORS[LOW], ct)

\* Two LRVs this close are the same up to the rounding of the products
\* (k tc 0.8) ct and 0.8 ((k tc) ct).
LrvTolerance == F(1, -6)

\* low and mid are the results of two states that differ only in turbidity
\* being Low and Mid; s is either state.
LowMidRelated(s, low, mid) ==
    /\ mid.lrvVirusApplied = low.lrvVirusApplied
    /\ mid.lrvVirusEffective = low.lrvVirusEffective
    /\ Near(mid.lrvBacteriaApplied,
            ClampLrv(Mul(F(8, -1), UnclampedLow(s, low.ctDose))), LrvTolerance)
    /\ Near(mid.lrvBacteriaEffective,
            ClampLrv(Mul(F(8, -1), UnclampedLow(s, low.effectiveCt))), LrvTolerance)
    /\ Le(mid.lrvBacteriaApplied, low.lrvBacteriaApplied)
    /\ Le(mid.lrvBacteriaEffective, low.lrvBacteriaEffective)

\* C13: between turbidity Low and Mid the two virus LRVs are the same, each
\* bacteria LRV at Mid is (up to rounding) the clamp to [0, 4] of 0.8 times
\* the unclamped Low value, and it is not greater than the bacteria LRV at
\* Low.
C13_LowVersusMid ==
    /\ state.turbidity = LOW =>
           LowMidRelated(state, results, calculateResults([state EXCEPT !.turbidity = MID]))
    /\ state.turbidity = MID =>
           LowMidRelated(state, calculateResults([state EXCEPT !.turbidity = LOW]), results)

\* At Mid the bacteria LRV is below the clamp and below its value at Low,
\* while the virus LRV is positive.
C13_Witness ==
    /\ state.turbidity = MID
    /\ Gt(results.lrvBacteriaApplied, Zero)
    /\ Lt(results.lrvBacteriaApplied, MAX_LRV)
    /\ Lt(results.lrvBacteriaApplied, UnclampedLow(state, results.ctDose))
    /\ Gt(results.lrvVirusApplied, Zero)

\* The baffle factor the specification applies: the configured one when the
\* tank is baffled, 0.1 otherwise.
AppliedFactor(s) == IF s.isBaffled THEN s.baffleFactor ELSE F(1, -1)

ChemicalFields(c) ==
    IF c = SODIUM_HYPOCHLORITE THEN {"naOClConc", "naOClDoseRate"} ELSE {"gasDoseRate"}

\* C15: giving another value to a property of the chemical that is not
\* selected (gasDoseRate under sodium hypochlorite, the hypochlorite
\* concentration or dose rate under chlorine gas) changes no output.
C15_UnselectedChemicalFrame ==
    \A c \in ChlorineChemical \ {state.chemical} :
        \A f \in ChemicalFields(c) :
            \A v \in FieldValues(f) \ {state[f]} :
                calculateResults([state EXCEPT ![f] = v]) = results

\* Chlorine gas with a positive dose while the hypochlorite concentration
\* has been set to 0.
C15_Witness ==
    /\ state.chemical = CHLORINE_GAS
    /\ state.naOClConc = Zero
    /\ Gt(results.chlorineDose, Zero)
    /\ Gt(results.ctDose, Zero)

\* x clamped to [lo, hi].
ClampTo(lo, hi, x) == MathMax(lo, MathMin(hi, x))

\* The pH shift of the specification: coefficient * dose / max(alkalinity, 10).
PhShift(coefficient, dose, alkalinity) ==
    Div(Mul(coefficient, dose), MathMax(alkalinity, Ten))

\* C16: postDosePh is the clamp to [2, 12] of pH - 2.5 dose / max(alkalinity, 10)
\* for chlorine gas and of pH + 1.8 dose / max(alkalinity, 10) for sodium
\* hypochlorite; with a dose >= 0 and a pH within [2, 12] chlorine gas does
\* not raise the pH and sodium hypochlorite does not lower it.
C16_PostDosePhFormula ==
    /\ state.chemical = CHLORINE_GAS =>
           /\ results.postDosePh =
                  ClampTo(Two, F(12, 0),
                          Sub(state.pH,
                              PhShift(F(25, -1), results.chlorineDose, state.alkalinity)))
           /\ (Ge(results.chlorineDose, Zero) /\ Ge(state.pH, Two) /\ Le(state.pH, F(12, 0)))
                  => Le(results.postDosePh, state.pH)
    /\ state.chemical = SODIUM_HYPOCHLORITE =>
           /\ results.postDosePh =
                  ClampTo(Two, F(12, 0),
                          Add(state.pH,
                              PhShift(F(18, -1), results.chlorineDose, state.alkalinity)))
           /\ (Ge(results.chlorineDose, Zero) /\ Ge(state.pH, Two) /\ Le(state.pH, F(12, 0)))
                  => Ge(results.postDosePh, state.pH)

\* Chlorine gas lowers the pH of an alkalinity below 10 without reaching a
\* clamp.
C16_Witness ==
    /\ state.chemical = CHLORINE_GAS
    /\ state.alkalinity = Zero
    /\ Gt(results.chlorineDose, Zero)
    /\ Lt(results.postDosePh, state.pH)
    /\ Gt(results.postDosePh, Two)
    /\ results.postDosePh = Sub(state.pH, Div(Mul(F(25, -1), results.chlorineDose), Ten))

(***************************************************************************)
(* Invocations of calculateResults side by side                            *)
(*                                                                         *)
(* Several invocations run section by section in any interleaving (which   *)
(* includes one after the other).  state holds what the invocations share: *)
(* the input record each was passed and the module-level table; results    *)
(* holds, per invocation, its position, its local variables and the record *)
(* it returned; edits counts the sections executed.                        *)
(***************************************************************************)
MaxCallers == 3

Callers == 1..MaxCallers

\* Scenario A with chlorine gas at a twentieth of the contact time, cold.
ScenarioGas ==
    [InitialState EXCEPT !.chemical = CHLORINE_GAS, !.flowRate = F(200000, 0),
                         !.temperature = Zero, !.turbidity = MID]

\* The inputs the invocations are passed.
CallInputs == {InitialState, ScenarioGas}

\* The local variables of calculateResults.
LocalNames ==
    {"dose_mgL", "vol", "t_min", "bf", "t10", "effectiveVol", "postDosePh",
     "hoClFraction", "ctDose", "effectiveCt"}

\* The sections of calculateResults in the order they run.
NextSection(pc) ==
    CASE pc = "dose and volume" -> "retention"
      [] pc = "retention" -> "chemistry"
      [] pc = "chemistry" -> "ct"
      [] pc = "ct" -> "inactivation"
      [] pc = "inactivation" -> "done"

\* The frame of an invocation that has just been entered.
EntryFrame ==
    [pc |-> "dose and volume",
     locals |-> [n \in LocalNames |-> Undefined],
     returned |-> Undefined]

InitCalls ==
    /\ state \in [input : [Callers -> CallInputs],
                  TURBIDITY_SHIELDING_FACTORS : {TURBIDITY_SHIELDING_FACTORS}]
    /\ results = [c \in Callers |-> EntryFrame]
    /\ edits = 0

\* locals with the variables of new assigned.
Assign(locals, new) ==
    [n \in DOMAIN locals |-> IF n \in DOMAIN new THEN new[n] ELSE locals[n]]

\* The variables of new assigned in every frame, as if they were declared
\* at module level.
StoreLocals_Shared(frames, c, new) ==
    [d \in DOMAIN frames |->
        [frames[d] EXCEPT !.locals = Assign(@, new),
                          !.pc = IF d = c THEN NextSection(@) ELSE @]]

\* Invocation c assigns the variables of new, which are local to it, and
\* moves to its next section.
StoreLocals(frames, c, new) ==
    [frames EXCEPT ![c].locals = Assign(@, new), ![c].pc = NextSection(@)]

\* 3. Retention time: the variables assigned, given t_min and bf.
Hydraulics(v, t, b) ==
    [t_min |-> t, bf |-> b, t10 |-> Mul(t, b), effectiveVol |-> Mul(v, b)]

\* 4. and 5.: the variables assigned, given the post-dose pH.
Chemistry(s, ph) == [postDosePh |-> ph, hoClFraction |-> hoClFraction(s, ph)]

\* The variables the section at pc assigns, from input s and the locals l
\* assigned so far.
SectionAssigns(pc, s, l) ==
    CASE pc = "dose and volume" -> [dose_mgL |-> dose_mgL(s), vol |-> vol(s)]
      [] pc = "retention" -> Hydraulics(l.vol, t_min(s, l.vol), bf(s))
      [] pc = "chemistry" -> Chemistry(s, postDosePh(s, l.dose_mgL))
      [] pc = "ct" -> [ctDose |-> ctDose(l.dose_mgL, l.t10),
                       effectiveCt |-> effectiveCt(l.dose_mgL, l.hoClFraction, l.t10)]

\* Invocation c executes one of its sections 1 to 6.
RunSection(c) ==
    /\ results[c].pc \in {"dose and volume", "retention", "chemistry", "ct"}
    /\ results' = StoreLocals(results, c,
                              SectionAssigns(results[c].pc, state.input[c], results[c].locals))
    /\ edits' = edits + 1
    /\ UNCHANGED state

\* The record invocation c returns from its locals l.
ReturnFrom(s, l) ==
    Return(l.dose_mgL, l.vol, l.effectiveVol, l.t_min, l.t10, l.ctDose, l.effectiveCt,
           l.postDosePh, l.hoClFraction, Inactivation(s, l.ctDose, l.effectiveCt))

\* Invocation c executes sections 7 and 8 and returns.
RunReturn(c) ==
    /\ results[c].pc = "inactivation"
    /\ results' = [results EXCEPT ![c].returned = ReturnFrom(state.input[c], results[c].locals),
                                  ![c].pc = NextSection(@)]
    /\ edits' = edits + 1
    /\ UNCHANGED state

NextCalls ==
    \/ \E c \in Callers : RunSection(c)
    \/ \E c \in Callers : RunReturn(c)

SpecCalls == InitCalls /\ [][NextCalls]_vars

\* Invocation c has returned.
Returned(c) == results[c].pc = "done"

\* Invocations that were passed equal inputs and have returned, returned
\* equal records; when all have returned, each returned what the function
\* gives for its input.
EqualInputsEqualResults ==
    /\ \A c, d \in Callers :
           (Returned(c) /\ Returned(d) /\ state.input[c] = state.input[d])
               => results[c].returned = results[d].returned
    /\ (\A c \in Callers : Returned(c)) =>
           \A c \in Callers : results[c].returned = calculateResults(state.input[c])

\* C17: invocations with equal inputs return equal records whatever other
\* invocations run before, between or interleaved with them, and no step of
\* an invocation changes an input record or the module-level table.
C17_DeterministicNoSideEffects ==
    [](EqualInputsEqualResults) /\ [][state' = state]_vars

\* Two invocations with the same input have returned the same record while
\* a third, with another input, is between its sections.
C17_Witness ==
    /\ Returned(1)
    /\ Returned(2)
    /\ state.input[1] = state.input[2]
    /\ state.input[3] # state.input[1]
    /\ results[3].pc = "chemistry"
    /\ results[1].returned = results[2].returned
    /\ results[1].returned = calculateResults(InitialState)

(***************************************************************************)
(* The App component                                                       *)
(*                                                                         *)
(* state is the form state, results the value of the useMemo that is       *)
(* rendered, and edits the number of state objects setState has created    *)
(* (the identity of the current state object).                             *)
(***************************************************************************)
\* typeof value at the call sites of handleInputChange: parseFloat(...) for
\* the numeric properties, e.target.checked for isBaffled, the value of a
\* select or a member of an enum for the others.
TypeOfArgument(field) ==
    IF field \in NumericFields THEN "number"
    ELSE IF field = "isBaffled" THEN "boolean"
    ELSE "string"

\* The arguments a control can pass for a property: what parseFloat gives,
\* NaN included, and the options of the selects.
ArgumentValues(field) ==
    CASE field \in NumericFields \cup DimensionFields ->
             FieldValues(field) \cup (DimensionValues(field) \ {Undefined}) \cup {NaN}
      [] field = "tankType" -> TankType
      [] OTHER -> FieldValues(field)

\* Math.max(0, isNaN(value) ? 0 : value)
NonNegative_NoClamp(value) == value

NonNegative(value) == MathMax(Zero, IF IsNaN(value) THEN Zero ELSE value)

\* processedValue of handleInputChange.
processedValue(field, value) ==
    IF TypeOfArgument(field) = "number" THEN NonNegative(value) ELSE value

\* useMemo with an empty dependency list: the value of the first render.
useMemo_Once(previous, prevDeps, deps, s) == previous

\* useMemo(() => calculateResults(state), [state]): the previous value is
\* kept while the state object is the same one.
useMemo(previous, prevDeps, deps, s) ==
    IF deps # prevDeps THEN calculateResults(s) ELSE previous

\* setState with a new state object, and the render that follows.
SetState(newState) ==
    /\ state' = newState
    /\ edits' = edits + 1
    /\ results' = useMemo(results, edits, edits + 1, newState)

\* newState with the baffling put back to the initial 0.5 when the tank
\* stops being a pipe.
newStateOf_ResetOnLeave(prev, field, processed) ==
    IF field = "tankType" /\ processed = PIPE
    THEN [prev EXCEPT ![field] = processed, !.baffleFactor = F(9, -1), !.isBaffled = TRUE]
    ELSE IF field = "tankType" /\ prev.tankType = PIPE
    THEN [prev EXCEPT ![field] = processed, !.baffleFactor = F(5, -1)]
    ELSE [prev EXCEPT ![field] = processed]

\* newState without the automatic logic for pipes.
newStateOf_NoPipeLock(prev, field, processed) == [prev EXCEPT ![field] = processed]

\* newState of handleInputChange: the property set, and the automatic logic
\* for pipes.
newStateOf(prev, field, processed) ==
    IF field = "tankType" /\ processed = PIPE
    THEN [prev EXCEPT ![field] = processed, !.baffleFactor = F(9, -1), !.isBaffled = TRUE]
    ELSE [prev EXCEPT ![field] = processed]

handleInputChange(field, value) ==
    /\ edits < MaxEdits
    /\ SetState(newStateOf(state, field, processedValue(field, value)))

handleDimensionChange(field, value) ==
    /\ edits < MaxEdits
    /\ SetState([state EXCEPT !.dimensions = With(state.dimensions, field, NonNegative(value))])

NextApp ==
    \/ \E field \in DOMAIN InitialState \ {"dimensions"} :
           \E value \in ArgumentValues(field) : handleInputChange(field, value)
    \/ \E field \in DimensionFields :
           \E value \in ArgumentValues(field) : handleDimensionChange(field, value)

SpecApp == Init /\ [][NextApp]_vars

\* C18: after any sequence of edits the results rendered are
\* calculateResults of the current form state.
C18_ResultsFollowState == results = calculateResults(state)

\* After two edits the results differ from those of the initial state.
C18_Witness ==
    /\ edits = 2
    /\ state.chemical = CHLORINE_GAS
    /\ state.tankType = PIPE
    /\ results # calculateResults(InitialState)
    /\ results.chlorineDose = F(48, -1)
    /\ results.volume = Zero

\* C19: with a dose and a t10 that are not negative, effectiveCt is at most
\* ctDose and each effective LRV is at most the applied LRV of the same
\* organism.
C19_EffectiveAtMostApplied ==
    (Ge(results.chlorineDose, Zero) /\ Ge(results.t10, Zero)) =>
        /\ Le(results.effectiveCt, results.ctDose)
        /\ Le(results.lrvBacteriaEffective, results.lrvBacteriaApplied)
        /\ Le(results.lrvVirusEffective, results.lrvVirusApplied)

\* Below the clamp the effective values are strictly smaller.
C19_Witness ==
    /\ Gt(results.chlorineDose, Zero)
    /\ Gt(results.effectiveCt, Zero)
    /\ Lt(results.effectiveCt, results.ctDose)
    /\ Lt(results.lrvBacteriaEffective, results.lrvBacteriaApplied)
    /\ Lt(results.lrvVirusEffective, results.lrvVirusApplied)
    /\ Lt(results.lrvVirusApplied, MAX_LRV)

\* C20: in the App component every numeric property of the form state and
\* every dimension it holds is a number >= 0, never NaN, whatever numbers
\* the handlers were called with.
C20_FormStateNonNegative ==
    /\ \A f \in NumericFields : Ge(state[f], Zero)
    /\ \A d \in DOMAIN state.dimensions : Ge(state.dimensions[d], Zero)

\* Two edits that property by property can only have come from a NaN or a
\* number <= 0: a flow rate and a length of 0.
C20_Witness ==
    /\ edits = 2
    /\ state.flowRate = Zero
    /\ state.dimensions.length = Zero
    /\ results.retentionTime = Zero

(***************************************************************************)
(* The form as rendered: the controls that are disabled                    *)
(***************************************************************************)
isPipe == state.tankType = PIPE

\* The baffling checkbox and the baffle-factor select carry
\* disabled={isPipe}: a disabled control fires no change event.
Disabled(field) == isPipe /\ field \in {"isBaffled", "baffleFactor"}

\* A control that is not disabled calls handleInputChange.
ControlChange(field, value) ==
    /\ ~Disabled(field)
    /\ handleInputChange(field, value)

NextForm ==
    \/ \E field \in DOMAIN InitialState \ {"dimensions"} :
           \E value \in ArgumentValues(field) : ControlChange(field, value)
    \/ \E field \in DimensionFields :
           \E value \in ArgumentValues(field) : handleDimensionChange(field, value)

SpecForm == Init /\ [][NextForm]_vars

\* C21: while the baffling controls accept no edit under tank type Pipe,
\* every reachable state with tankType = Pipe has isBaffled = true and
\* baffleFactor = 0.9.
C21_PipeLocked ==
    state.tankType = PIPE => (state.isBaffled = TRUE /\ state.baffleFactor = F(9, -1))

\* A diameter was given and the tank turned into a pipe: the pipe is baffled
\* with factor 0.9 and t10 is 0.9 times the retention time.
C21_Witness ==
    /\ edits = 2
    /\ state.tankType = PIPE
    /\ state.isBaffled = TRUE
    /\ state.baffleFactor = F(9, -1)
    /\ Get(state.dimensions, "diameter") = F(4, 0)
    /\ Gt(results.t10, Zero)
    /\ results.t10 = Mul(results.retentionTime, F(9, -1))

\* The properties handleInputChange(field, value) may change besides field.
AlsoSet(field, value) ==
    IF field = "tankType" /\ value = PIPE THEN {"baffleFactor", "isBaffled"} ELSE {}

\* This step is the state update of handleInputChange(field, value).
IsInputChange(field, value) ==
    state' = newStateOf(state, field, processedValue(field, value))

\* This step is the state update of handleDimensionChange(field, value).
IsDimensionChange(field, value) ==
    state' = [state EXCEPT !.dimensions = With(state.dimensions, field, NonNegative(value))]

\* Every property but field (and, for tankType = Pipe, the baffling) is as
\* before, and a pipe is baffled with factor 0.9.
InputFrame(field, value) ==
    /\ DOMAIN state' = DOMAIN state
    /\ \A f \in DOMAIN state \ ({field} \cup AlsoSet(field, value)) : state'[f] = state[f]
    /\ AlsoSet(field, value) # {} =>
           (state'.baffleFactor = F(9, -1) /\ state'.isBaffled = TRUE)

\* Every property but dimensions, and every dimension but field, is as
\* before.
DimensionFrame(field) ==
    /\ DOMAIN state' = DOMAIN state
    /\ \A f \in DOMAIN state \ {"dimensions"} : state'[f] = state[f]
    /\ \A d \in DimensionFields \ {field} :
           Get(state'.dimensions, d) = Get(state.dimensions, d)

\* C22: handleInputChange(field, value) changes only the named property,
\* except that tankType = Pipe also sets baffleFactor to 0.9 and isBaffled
\* to true (so leaving Pipe leaves the baffling as it is), and
\* handleDimensionChange changes only the named dimension.
C22_HandlerFrame ==
    [][/\ \A field \in DOMAIN InitialState \ {"dimensions"} :
              \A value \in ArgumentValues(field) :
                  IsInputChange(field, value) => InputFrame(field, value)
       /\ \A field \in DimensionFields :
              \A value \in ArgumentValues(field) :
                  IsDimensionChange(field, value) => DimensionFrame(field)]_vars

\* The tank was a pipe and is now circular: the baffling of the pipe is
\* still in place.
C22_Witness ==
    /\ edits = 2
    /\ state.tankType = CIRCULAR
    /\ state.baffleFactor = F(9, -1)
    /\ state.isBaffled = TRUE
    /\ state.dimensions = InitialState.dimensions

====
